---- MODULE Spec2Model ----
(***************************************************************************)
(* Layered settings resolution and cached config accessors of              *)
(* src/src/animatediff/settings.py.                                        *)
(*                                                                         *)
(* JSON values are records [kind, a, l, d]:                                *)
(*   kind "str"  : a JSON/Python string, text in a                         *)
(*   kind "num"  : a JSON/Python number, decimal text in a                 *)
(*   kind "list" : a list of scalars, the items' texts in l                *)
(*   kind "dict" : a mapping from sub-key to value (scalar or mapping), in d*)
(*   kind "path" : a pathlib.Path, its text in a                           *)
(*   kind "null" : None                                                    *)
(* A mapping (a Python dict keyed by field name) is a function whose       *)
(* DOMAIN is the set of keys it contains.                                  *)
(***************************************************************************)
EXTENDS Integers, Sequences, FiniteSets, TLC

VARIABLES
    fs,          \* the file at each path: missing, a directory, or a file with its text
    env,         \* the process environment, as field values
    inferCache,  \* the lru_cache of get_infer_config, least recently used first
    modelCache,  \* the lru_cache of get_model_config, least recently used first
    recent,      \* per accessor, the keys of its latest successful calls (history)
    nextId,      \* the number of settings objects the accessors have built, plus one
    last         \* the latest operation: its arguments and what the caller got

vars == <<fs, env, inferCache, modelCache, recent, nextId, last>>

(* ------------------------------ bounds --------------------------------- *)

\* longest json_config_path list handed to a settings class
MaxPathList == 2

\* number of Config Objects constructed by the accessors in one behaviour
MaxObjs == 3

(* ------------------------------ values --------------------------------- *)

EmptyMap == [k \in {} |-> ""]

Str(s) == [kind |-> "str", a |-> s, l |-> <<>>, d |-> EmptyMap]

Num(s) == [kind |-> "num", a |-> s, l |-> <<>>, d |-> EmptyMap]

List(items) == [kind |-> "list", a |-> "", l |-> items, d |-> EmptyMap]

Dict(m) == [kind |-> "dict", a |-> "", l |-> <<>>, d |-> m]

PathV(s) == [kind |-> "path", a |-> s, l |-> <<>>, d |-> EmptyMap]

Null == [kind |-> "null", a |-> "", l |-> <<>>, d |-> EmptyMap]

\* texts that int() / float() accept
NumericTexts == {"1", "2", "7", "25", "30", "7.5"}

\* texts that int() accepts when given as a str
IntegerTexts == {"1", "2", "7", "25", "30"}

(* ------------------------------ files ---------------------------------- *)

\* get_dir("config").joinpath("inference/default.json")
DefaultInferPath == "config/inference/default.json"

Paths == {"a.json", "b.json", "c.json", DefaultInferPath}

Missing == [state |-> "missing", content |-> EmptyMap]

Directory == [state |-> "dir", content |-> EmptyMap]

Malformed == [state |-> "malformed", content |-> EmptyMap]

Json(m) == [state |-> "json", content |-> m]

\* path.exists() and path.is_file()
IsFile(files, p) == files[p].state \in {"malformed", "json"}

(* ------------------------ JsonSettingsSource --------------------------- *)

\* JsonSettingsSource.__init__: a list is kept as the list of its paths, None
\* becomes the empty list, anything else a one-element list
JsonSettingsSourceInit(json_config_path) ==
    IF json_config_path.kind = "list" THEN json_config_path.l
    ELSE IF json_config_path.kind # "null" THEN <<json_config_path.a>>
    ELSE <<>>

\* a merge that keeps the value already present on collision
UpdateKeepExisting(acc, m) ==
    [k \in (DOMAIN acc) \cup (DOMAIN m) |-> IF k \in DOMAIN acc THEN acc[k] ELSE m[k]]

\* dict.update: the keys of both, the updating mapping's value on collision
Update(acc, m) ==
    [k \in (DOMAIN acc) \cup (DOMAIN m) |-> IF k \in DOMAIN m THEN m[k] ELSE acc[k]]

\* an error that reports the 0-based position
RaiseZeroBased(err, idx, path, reads) ==
    [ok |-> FALSE, err |-> err, idx |-> idx - 1, path |-> path,
     value |-> EmptyMap, reads |-> reads]

\* raise: the error with the 1-based position idx+1 and the path; nothing is
\* returned
Raise(err, idx, path, reads) ==
    [ok |-> FALSE, err |-> err, idx |-> idx, path |-> path,
     value |-> EmptyMap, reads |-> reads]

\* return merged_config
Return(value, reads) ==
    [ok |-> TRUE, err |-> "", idx |-> 0, path |-> "", value |-> value, reads |-> reads]

\* the loop of JsonSettingsSource.__call__ from position i on, with the
\* accumulator merged_config and the paths whose text has been read so far
RECURSIVE MergeFrom(_, _, _, _, _)
MergeFrom(paths, files, i, merged_config, reads) ==
    IF i > Len(paths) THEN Return(merged_config, reads)
    ELSE IF ~IsFile(files, paths[i])
         THEN Raise("FileNotFoundError", i, paths[i], reads)
    ELSE IF files[paths[i]].state = "malformed"
         THEN Raise("JSONDecodeError", i, paths[i], Append(reads, paths[i]))
    ELSE MergeFrom(paths, files, i + 1,
                   Update(merged_config, files[paths[i]].content),
                   Append(reads, paths[i]))

\* JsonSettingsSource.__call__
JsonSettingsSourceCall(paths, files) == MergeFrom(paths, files, 1, EmptyMap, <<>>)

(* --------------------------- config classes ---------------------------- *)

Classes == {"ModelConfig", "InferenceConfig"}

\* the declared fields of a settings class
Fields(cls) ==
    IF cls = "ModelConfig"
    THEN {"name", "base", "path", "motion_module", "seed", "steps",
          "guidance_scale", "prompt", "n_prompt"}
    ELSE {"unet_additional_kwargs", "noise_scheduler_kwargs"}

\* the fields declared without a default (Field(...) or a bare annotation)
Required(cls) ==
    IF cls = "ModelConfig"
    THEN {"name", "base", "path", "motion_module"}
    ELSE {"unet_additional_kwargs", "noise_scheduler_kwargs"}

\* the declared type of a field
FieldType(f) ==
    CASE f \in {"name", "base"} -> "str"
      [] f \in {"path", "motion_module"} -> "path"
      [] f = "seed" -> "list_int"
      [] f = "steps" -> "int"
      [] f = "guidance_scale" -> "float"
      [] f \in {"prompt", "n_prompt"} -> "list_str"
      [] OTHER -> "dict"

\* defaults with another step count
DefaultSteps50(f) ==
    CASE f = "steps" -> Num("50")
      [] f = "guidance_scale" -> Num("7.5")
      [] OTHER -> List(<<>>)

\* the declared default of an optional field
Default(f) ==
    CASE f = "steps" -> Num("25")
      [] f = "guidance_scale" -> Num("7.5")
      [] OTHER -> List(<<>>)

\* int() of a number: a fraction is truncated
IntOf(text) == IF text = "7.5" THEN "7" ELSE text

\* int() of every item of a list
RECURSIVE IntsOf(_)
IntsOf(items) ==
    IF items = <<>> THEN <<>> ELSE <<IntOf(Head(items))>> \o IntsOf(Tail(items))

Accept(v) == [ok |-> TRUE, v |-> v]

Reject == [ok |-> FALSE, v |-> Null]

\* the field validators of the settings framework for the declared types:
\* a value is converted to the field's type or rejected
Coerce(type, v) ==
    CASE type = "str" ->
           IF v.kind = "str" THEN Accept(v)
           ELSE IF v.kind = "num" THEN Accept(Str(v.a))
           ELSE Reject
      [] type = "path" ->
           IF v.kind \in {"str", "path"} THEN Accept(PathV(v.a)) ELSE Reject
      [] type = "int" ->
           IF v.kind = "num" THEN Accept(Num(IntOf(v.a)))
           ELSE IF v.kind = "str" /\ v.a \in IntegerTexts THEN Accept(Num(v.a))
           ELSE Reject
      [] type = "float" ->
           IF v.kind = "num" THEN Accept(v)
           ELSE IF v.kind = "str" /\ v.a \in NumericTexts THEN Accept(Num(v.a))
           ELSE Reject
      [] type = "list_int" ->
           IF v.kind = "list" /\ \A i \in 1..Len(v.l) : v.l[i] \in NumericTexts
           THEN Accept(List(IntsOf(v.l)))
           ELSE Reject
      [] type = "list_str" ->
           IF v.kind = "list" THEN Accept(v) ELSE Reject
      [] OTHER ->
           IF v.kind = "dict" THEN Accept(v)
           ELSE IF v.kind = "list" /\ v.l = <<>> THEN Accept(Dict(EmptyMap))
           ELSE Reject

\* BaseSettings validation of the merged values against the declared fields
\* (unknown keys are forbidden for settings classes)
Validate(cls, values) ==
    LET given == DOMAIN values
        errors ==
            {<<f, "missing">> : f \in Required(cls) \ given}
            \cup {<<f, "type">> :
                    f \in {g \in Fields(cls) \cap given :
                             ~Coerce(FieldType(g), values[g]).ok}}
            \cup {<<k, "extra">> : k \in given \ Fields(cls)}
    IN  [ok |-> errors = {},
         errors |-> errors,
         obj |-> IF errors = {}
                 THEN [f \in Fields(cls) |->
                         IF f \in given THEN Coerce(FieldType(f), values[f]).v
                         ELSE Default(f)]
                 ELSE EmptyMap]

(* ----------------------- JsonConfig / BaseSettings --------------------- *)

\* JsonConfig.json_config_path, the class-level default
ClassJsonConfigPath == Null

\* the framework's source order when customise_sources is not overridden
DefaultSources == <<"init", "env", "secrets">>

\* an override that keeps the environment ahead of the JSON files
customise_sources_env(init_kwargs) ==
    LET json_config_path ==
            IF "json_config_path" \in DOMAIN init_kwargs
            THEN init_kwargs["json_config_path"]
            ELSE ClassJsonConfigPath
    IN  [sources |-> <<"init", "env", "json">>,
         init_kwargs |-> [k \in (DOMAIN init_kwargs) \ {"json_config_path"} |->
                            init_kwargs[k]],
         json_settings |-> JsonSettingsSourceInit(json_config_path)]

\* an override that reads json_config_path without removing it
customise_sources_get(init_kwargs) ==
    LET json_config_path ==
            IF "json_config_path" \in DOMAIN init_kwargs
            THEN init_kwargs["json_config_path"]
            ELSE ClassJsonConfigPath
    IN  [sources |-> <<"init", "json">>,
         init_kwargs |-> init_kwargs,
         json_settings |-> JsonSettingsSourceInit(json_config_path)]

\* JsonConfig.customise_sources: pops json_config_path from the init
\* arguments, builds the JSON source from it and returns (init, json)
customise_sources(init_kwargs) ==
    LET json_config_path ==
            IF "json_config_path" \in DOMAIN init_kwargs
            THEN init_kwargs["json_config_path"]
            ELSE ClassJsonConfigPath
    IN  [sources |-> <<"init", "json">>,
         init_kwargs |-> [k \in (DOMAIN init_kwargs) \ {"json_config_path"} |->
                            init_kwargs[k]],
         json_settings |-> JsonSettingsSourceInit(json_config_path)]

\* EnvSettingsSource: the environment's values for the declared fields
EnvSettingsSource(cls, envm) == [k \in (DOMAIN envm) \cap Fields(cls) |-> envm[k]]

\* deep_update(mapping, updating): the updating mapping wins key by key, and
\* where both values are mappings they are merged by deep_update again
\* instead of being replaced, to any depth
RECURSIVE deep_update(_, _)
deep_update(mapping, updating) ==
    [k \in (DOMAIN mapping) \cup (DOMAIN updating) |->
        IF k \notin DOMAIN updating THEN mapping[k]
        ELSE IF k \in DOMAIN mapping
                /\ mapping[k].kind = "dict" /\ updating[k].kind = "dict"
             THEN Dict(deep_update(mapping[k].d, updating[k].d))
        ELSE updating[k]]

\* deep_update(*reversed(results)) from position i on: the first source wins
RECURSIVE MergeSources(_, _)
MergeSources(results, i) ==
    IF i = Len(results) THEN results[i]
    ELSE deep_update(MergeSources(results, i + 1), results[i])

\* BaseSettings.__init__ of class cls with the keyword arguments init_kwargs:
\* the sources of customise_sources are called in order, merged and validated
Construct(cls, init_kwargs, files, envm) ==
    LET cs == customise_sources(init_kwargs)
        js == JsonSettingsSourceCall(cs.json_settings, files)
        results == [i \in 1..Len(cs.sources) |->
                      CASE cs.sources[i] = "init" -> cs.init_kwargs
                        [] cs.sources[i] = "json" -> js.value
                        [] cs.sources[i] = "env" -> EnvSettingsSource(cls, envm)
                        [] OTHER -> EmptyMap]
        jsonUsed == \E i \in 1..Len(cs.sources) : cs.sources[i] = "json"
        values == MergeSources(results, 1)
        v == Validate(cls, values)
    IN  IF jsonUsed /\ ~js.ok
        THEN [ok |-> FALSE, err |-> js.err, idx |-> js.idx, path |-> js.path,
              errors |-> {}, obj |-> EmptyMap, reads |-> js.reads,
              sources |-> cs.sources, init_after |-> cs.init_kwargs,
              json_paths |-> cs.json_settings, json_value |-> EmptyMap]
        ELSE [ok |-> v.ok, err |-> IF v.ok THEN "" ELSE "ValidationError",
              idx |-> 0, path |-> "",
              errors |-> v.errors, obj |-> v.obj,
              reads |-> IF jsonUsed THEN js.reads ELSE <<>>,
              sources |-> cs.sources, init_after |-> cs.init_kwargs,
              json_paths |-> cs.json_settings,
              json_value |-> IF jsonUsed THEN js.value ELSE EmptyMap]

(* ------------------------------ inputs --------------------------------- *)

\* the example of the documentation: the required fields only
ModelRequiredOnly ==
    [name |-> Str("m1"), base |-> Str("b1"), path |-> Str("p1.ckpt"),
     motion_module |-> Str("mm1.ckpt")]

ModelPartial ==
    [name |-> Str("m2"), steps |-> Num("30"), seed |-> List(<<"1", "2">>)]

ModelBadSteps == [steps |-> Str("abc")]

ModelStray == [json_config_path |-> Str("b.json"), prompt |-> List(<<"x">>)]

InferFull ==
    [unet_additional_kwargs |-> Dict([a |-> Num("1"), b |-> Num("2")]),
     noise_scheduler_kwargs |-> Dict([a |-> Num("1")])]

InferPartial == [unet_additional_kwargs |-> Dict([a |-> Num("9")])]

\* free-form keyword mappings that hold mappings themselves, three levels deep
InferNested ==
    [unet_additional_kwargs |->
        Dict([a |-> Num("1"),
              m |-> Dict([x |-> Num("1"), y |-> Num("2"),
                          n |-> Dict([u |-> Num("1"), v |-> Num("2")]),
                          s |-> Dict([t |-> Num("1")])])]),
     noise_scheduler_kwargs |-> Dict([m |-> Num("3"), k |-> Dict([x |-> Num("1")])])]

\* sequences over S of length at most n
RECURSIVE SeqsUpTo(_, _)
SeqsUpTo(S, n) ==
    IF n = 0 THEN {<<>>}
    ELSE LET shorter == SeqsUpTo(S, n - 1)
         IN  shorter \cup {Append(q, x) : q \in {r \in shorter : Len(r) = n - 1}, x \in S}

\* what a caller passes as json_config_path: None, one path, or a list
JsonPathArgs ==
    {Null} \cup {PathV(p) : p \in Paths} \cup {List(q) : q \in SeqsUpTo(Paths, MaxPathList)}

WithPath(kwargs, arg) ==
    [k \in (DOMAIN kwargs) \cup {"json_config_path"} |->
        IF k = "json_config_path" THEN arg ELSE kwargs[k]]

\* keyword arguments of a direct ModelConfig(...) construction
ModelKwargs ==
    {EmptyMap,
     [name |-> Str("init")],
     [path |-> PathV("ip.ckpt"), steps |-> Str("7")],
     [name |-> Str("n0"), base |-> Str("b0"), path |-> PathV("p0.ckpt"),
      motion_module |-> PathV("mm0.ckpt")],
     [seed |-> Str("x")]}

\* keyword arguments of a direct InferenceConfig(...) construction
InferKwargs ==
    {EmptyMap,
     [unet_additional_kwargs |-> Dict([a |-> Num("7"), c |-> Num("8")])],
     [unet_additional_kwargs |-> Dict([c |-> Num("8")]),
      noise_scheduler_kwargs |-> Dict([a |-> Num("5")])],
     [unet_additional_kwargs |-> Dict([m |-> Dict([x |-> Num("9")])])],
     [unet_additional_kwargs |->
        Dict([m |-> Dict([n |-> Dict([u |-> Num("9"), w |-> Num("8")]),
                          s |-> Num("0")])]),
      noise_scheduler_kwargs |-> Dict([m |-> Dict([x |-> Num("9")]), k |-> Num("0")])],
     [noise_scheduler_kwargs |-> Str("off")]}

\* the process environment, as the values the environment source would yield:
\* a variable of a scalar field stays the string it is in os.environ, only
\* the variables of the mapping fields are decoded from JSON
EnvChoices ==
    {EmptyMap,
     [name |-> Str("envname"), steps |-> Str("2"), guidance_scale |-> Str("1"),
      unet_additional_kwargs |-> Dict([z |-> Num("0"), m |-> Dict([e |-> Num("0")])]),
      noise_scheduler_kwargs |-> Dict([z |-> Num("0")])]}

(* --------------------- JsonSettingsSource on its own ------------------- *)

SourceFileStates ==
    {Missing, Directory, Malformed, Json(EmptyMap), Json(ModelRequiredOnly),
     Json(ModelPartial), Json(ModelBadSteps)}

InitSource ==
    /\ fs \in [Paths -> SourceFileStates]
    /\ env = EmptyMap
    /\ inferCache = <<>>
    /\ modelCache = <<>>
    /\ recent = [model |-> <<>>, infer |-> <<>>]
    /\ nextId = 1
    /\ last \in {[op |-> "args", arg |-> arg] : arg \in JsonPathArgs}

\* JsonSettingsSource(json_config_path=arg)(settings), for the drawn argument
CallJsonSource ==
    /\ last.op = "args"
    /\ last' = [op |-> "source", arg |-> last.arg,
                paths |-> JsonSettingsSourceInit(last.arg),
                res |-> JsonSettingsSourceCall(JsonSettingsSourceInit(last.arg), fs)]
    /\ UNCHANGED <<fs, env, inferCache, modelCache, recent, nextId>>

NextSource == CallJsonSource

SpecSource == InitSource /\ [][NextSource]_vars

(* ---- claims about JsonSettingsSource.__call__ (checked under SpecSource) *)

IsJson(p) == fs[p].state = "json"

NotAFile(p) == fs[p].state \in {"missing", "dir"}

\* the position of the last file of paths that contains key k
LastWithKey(paths, k) ==
    CHOOSE i \in 1..Len(paths) :
        /\ k \in DOMAIN fs[paths[i]].content
        /\ \A j \in (i + 1)..Len(paths) : k \notin DOMAIN fs[paths[j]].content

\* C1: for a list of existing JSON files the returned mapping has exactly the
\* union of the files' top-level keys, each with the value of the last file
\* in the list that contains it
C1_LaterFileWins ==
    (last.op = "source" /\ \A i \in 1..Len(last.paths) : IsJson(last.paths[i]))
    => /\ last.res.ok
       /\ DOMAIN last.res.value =
            UNION {DOMAIN fs[last.paths[i]].content : i \in 1..Len(last.paths)}
       /\ \A k \in DOMAIN last.res.value :
            last.res.value[k] =
              fs[last.paths[LastWithKey(last.paths, k)]].content[k]

\* two different JSON files [A, B] sharing a key with different values were merged
C1_Witness ==
    /\ last.op = "source"
    /\ Len(last.paths) = 2
    /\ last.paths[1] # last.paths[2]
    /\ IsJson(last.paths[1]) /\ IsJson(last.paths[2])
    /\ \E k \in (DOMAIN fs[last.paths[1]].content) \cap (DOMAIN fs[last.paths[2]].content) :
         /\ fs[last.paths[1]].content[k] # fs[last.paths[2]].content[k]
         /\ last.res.value[k] = fs[last.paths[2]].content[k]
    /\ (DOMAIN fs[last.paths[1]].content) \ (DOMAIN fs[last.paths[2]].content) # {}

\* the loop reaches position i: every earlier path is a parseable file, and
\* the path at i does not exist or is not a regular file
FirstBadAt(paths, i) ==
    /\ i \in 1..Len(paths)
    /\ NotAFile(paths[i])
    /\ \A j \in 1..(i - 1) : IsJson(paths[j])

\* C2: at the first path that does not exist or is not a regular file the call
\* fails with a not-found error naming that path and its 1-based position; no
\* later path is read and no partially merged mapping is returned
C2_NotFoundNamesPathAndPosition ==
    last.op = "source" =>
      \A i \in 1..Len(last.paths) :
        FirstBadAt(last.paths, i) =>
          /\ ~last.res.ok
          /\ last.res.err = "FileNotFoundError"
          /\ last.res.path = last.paths[i]
          /\ last.res.idx = i
          /\ last.res.reads = SubSeq(last.paths, 1, i - 1)
          /\ last.res.value = EmptyMap

\* a valid non-empty file was merged first, then the missing second path was hit
C2_Witness ==
    /\ last.op = "source"
    /\ Len(last.paths) >= 2
    /\ FirstBadAt(last.paths, 2)
    /\ fs[last.paths[1]].content # EmptyMap
    /\ ~last.res.ok
    /\ last.res.idx = 2

(* ------------------- direct construction of the settings --------------- *)

\* the keyword arguments of a construction: data arguments, with or without
\* json_config_path
KwargsWithPaths(data) == data \cup {WithPath(kw, arg) : kw \in data, arg \in JsonPathArgs}

BuildFileStates ==
    {Missing, Malformed, Json(ModelRequiredOnly), Json(ModelPartial),
     Json(ModelBadSteps), Json(ModelStray), Json(InferFull), Json(InferPartial),
     Json(InferNested)}

InitBuild ==
    /\ fs \in {f \in [Paths -> BuildFileStates \cup {Directory}] :
                 /\ f["a.json"] \in BuildFileStates
                 /\ f["b.json"] \in BuildFileStates
                 /\ f["c.json"] = Json(ModelPartial)
                 /\ f[DefaultInferPath] \in {Directory, Json(InferFull)}}
    /\ env \in EnvChoices
    /\ inferCache = <<>>
    /\ modelCache = <<>>
    /\ recent = [model |-> <<>>, infer |-> <<>>]
    /\ nextId = 1
    /\ last \in {[op |-> "args", cls |-> "ModelConfig", kwargs |-> kw] :
                   kw \in KwargsWithPaths(ModelKwargs)}
               \cup {[op |-> "args", cls |-> "InferenceConfig", kwargs |-> kw] :
                       kw \in KwargsWithPaths(InferKwargs)}

\* ModelConfig(**kwargs), for the drawn keyword arguments
NewModelConfig ==
    /\ last.op = "args"
    /\ last.cls = "ModelConfig"
    /\ last' = [op |-> "construct", cls |-> "ModelConfig", kwargs |-> last.kwargs,
                res |-> Construct("ModelConfig", last.kwargs, fs, env)]
    /\ UNCHANGED <<fs, env, inferCache, modelCache, recent, nextId>>

\* InferenceConfig(**kwargs), for the drawn keyword arguments
NewInferenceConfig ==
    /\ last.op = "args"
    /\ last.cls = "InferenceConfig"
    /\ last' = [op |-> "construct", cls |-> "InferenceConfig", kwargs |-> last.kwargs,
                res |-> Construct("InferenceConfig", last.kwargs, fs, env)]
    /\ UNCHANGED <<fs, env, inferCache, modelCache, recent, nextId>>

NextBuild ==
    \/ NewModelConfig
    \/ NewInferenceConfig

SpecBuild == InitBuild /\ [][NextBuild]_vars

(* ---- claims about the construction (checked under SpecBuild) ---------- *)

\* the construction got past the JSON source (no file error)
Built == last.op = "construct" /\ last.res.err \in {"", "ValidationError"}

\* the data arguments of the construction: all but json_config_path
DataArgs == [k \in (DOMAIN last.kwargs) \ {"json_config_path"} |-> last.kwargs[k]]

\* the value a field resolves to when the sources are consulted in the order
\* init arguments, JSON files, declared default, each value taken whole
WholeValue(f) ==
    IF f \in DOMAIN DataArgs THEN Coerce(FieldType(f), DataArgs[f]).v
    ELSE IF f \in DOMAIN last.res.json_value
         THEN Coerce(FieldType(f), last.res.json_value[f]).v
    ELSE Default(f)

\* both the init arguments and the JSON files give a mapping for field f
BothMappings(f) ==
    /\ f \in DOMAIN DataArgs
    /\ f \in DOMAIN last.res.json_value
    /\ DataArgs[f].kind = "dict"
    /\ last.res.json_value[f].kind = "dict"

Absent == [kind |-> "absent", a |-> "", l |-> <<>>, d |-> EmptyMap]

\* the value found in v by going down the keys of path, Absent if there is none
RECURSIVE At(_, _)
At(v, path) ==
    IF path = <<>> THEN v
    ELSE IF v.kind = "dict" /\ Head(path) \in DOMAIN v.d
         THEN At(v.d[Head(path)], Tail(path))
    ELSE Absent

\* the key paths that lead to a value inside v, the empty path included
RECURSIVE KeyPaths(_)
KeyPaths(v) ==
    {<<>>} \cup
    (IF v.kind = "dict"
     THEN UNION {{<<k>> \o p : p \in KeyPaths(v.d[k])} : k \in DOMAIN v.d}
     ELSE {})

\* going down path, the init value i and the JSON value j both hold a mapping
BothMappingsAt(i, j, path) == At(i, path).kind = "dict" /\ At(j, path).kind = "dict"

\* the resolved value r is what i and j give at path: a mapping with the keys
\* of both while both hold mappings all the way down to path; otherwise, from
\* the first place on the way where they do not both hold mappings, the init
\* value's if it has one there, else the JSON value's
ResolvedAt(r, i, j, path) ==
    IF \A n \in 0..Len(path) : BothMappingsAt(i, j, SubSeq(path, 1, n))
    THEN /\ At(r, path).kind = "dict"
         /\ DOMAIN At(r, path).d = (DOMAIN At(i, path).d) \cup (DOMAIN At(j, path).d)
    ELSE LET n == CHOOSE n \in 0..Len(path) :
                    /\ ~BothMappingsAt(i, j, SubSeq(path, 1, n))
                    /\ \A m \in 0..(n - 1) : BothMappingsAt(i, j, SubSeq(path, 1, m))
             winner == IF At(i, SubSeq(path, 1, n)) # Absent THEN i ELSE j
         IN  At(r, path) = At(winner, path)

\* field f resolves to the recursive merge of its init and JSON mappings
MergedDeep(f) ==
    LET i == DataArgs[f]
        j == last.res.json_value[f]
        r == last.res.obj[f]
    IN  \A path \in KeyPaths(i) \cup KeyPaths(j) \cup KeyPaths(r) : ResolvedAt(r, i, j, path)

\* neither the environment nor the secrets are consulted
OnlyInitAndJson ==
    /\ last.res.sources = <<"init", "json">>
    /\ last.res = Construct(last.cls, last.kwargs, fs, EmptyMap)

\* C3 as stated: every field resolves to the init argument if given, else to
\* the JSON-merged value, else to the declared default, and the environment
\* and secrets sources are not consulted
C3_InitValueWinsWhole ==
    (Built /\ last.res.ok) =>
      /\ \A f \in Fields(last.cls) : last.res.obj[f] = WholeValue(f)
      /\ OnlyInitAndJson

\* C3 (amended): as stated, except that a field given as a mapping both by
\* the init arguments and by the JSON files resolves to the two merged
\* recursively: wherever, going down the same keys, both hold a mapping, the
\* result holds a mapping with the keys of both; at the first key where they
\* do not both hold a mapping the init argument's value is taken whole if it
\* has one there, else the JSON value
C3_InitWinsRecursively ==
    (Built /\ last.res.ok) =>
      /\ \A f \in Fields(last.cls) :
           IF BothMappings(f) THEN MergedDeep(f) ELSE last.res.obj[f] = WholeValue(f)
      /\ OnlyInitAndJson

\* an init mapping met a JSON mapping two levels down: below the keys m and
\* n both hold mappings, and there the result has the init argument's entry
\* for the key both have, the JSON entry only the files have and the init
\* entry only the argument has, while at m.s the init scalar replaced the
\* JSON mapping; the environment is set, and the other field met a JSON
\* scalar with an init mapping
C3_Witness ==
    /\ Built /\ last.res.ok
    /\ env # EmptyMap
    /\ \E f \in Fields(last.cls) :
         /\ BothMappings(f)
         /\ BothMappingsAt(DataArgs[f], last.res.json_value[f], <<"m", "n">>)
         /\ At(last.res.obj[f], <<"m", "n", "u">>) = At(DataArgs[f], <<"m", "n", "u">>)
         /\ At(last.res.json_value[f], <<"m", "n", "u">>)
              \notin {Absent, At(DataArgs[f], <<"m", "n", "u">>)}
         /\ At(DataArgs[f], <<"m", "n", "v">>) = Absent
         /\ At(last.res.obj[f], <<"m", "n", "v">>) = Num("2")
         /\ At(last.res.obj[f], <<"m", "n", "w">>) = Num("8")
         /\ At(last.res.json_value[f], <<"m", "s">>).kind = "dict"
         /\ At(last.res.obj[f], <<"m", "s">>) = Num("0")
    /\ \E f \in Fields(last.cls) :
         /\ BothMappings(f)
         /\ At(last.res.json_value[f], <<"m">>).kind = "num"
         /\ At(last.res.obj[f], <<"m">>).kind = "dict"

\* the keys supplied to a ModelConfig by the init arguments and the JSON files
Supplied == (DOMAIN DataArgs) \cup (DOMAIN last.res.json_value)

\* the value supplied for key k: the init argument, else the JSON value
SuppliedValue(k) == IF k \in DOMAIN DataArgs THEN DataArgs[k] ELSE last.res.json_value[k]

DocumentedDefaults ==
    [seed |-> List(<<>>), steps |-> Num("25"), guidance_scale |-> Num("7.5"),
     prompt |-> List(<<>>), n_prompt |-> List(<<>>)]

RequiredNames == {"name", "base", "path", "motion_module"}

DefaultsApplied ==
    /\ last.res.ok
    /\ \A f \in (DOMAIN DocumentedDefaults) \ Supplied :
         last.res.obj[f] = DocumentedDefaults[f]

ConstructionFails ==
    /\ ~last.res.ok
    /\ last.res.err = "ValidationError"
    /\ last.res.obj = EmptyMap
    /\ \A f \in RequiredNames \ Supplied : <<f, "missing">> \in last.res.errors

\* C8 as stated: with every required field present the omitted optional
\* fields take their defaults and construction succeeds; with a required
\* field absent from all sources construction fails with a validation error
C8_RequiredPresentSucceeds ==
    (Built /\ last.cls = "ModelConfig") =>
      /\ RequiredNames \subseteq Supplied => DefaultsApplied
      /\ ~(RequiredNames \subseteq Supplied) => ConstructionFails

\* every supplied key is a declared field with a value of a compatible type
WellFormed ==
    /\ Supplied \subseteq Fields("ModelConfig")
    /\ \A k \in Supplied : Coerce(FieldType(k), SuppliedValue(k)).ok

\* C8 (amended): with every required field present, every supplied value
\* compatible with its field's type and no key supplied that is not a
\* declared field, the omitted optional fields take their defaults and
\* construction succeeds; with a required field absent construction fails
C8_WellFormedRequiredPresentSucceeds ==
    (Built /\ last.cls = "ModelConfig") =>
      /\ (RequiredNames \subseteq Supplied /\ WellFormed) => DefaultsApplied
      /\ ~(RequiredNames \subseteq Supplied) => ConstructionFails

\* the documented example: the required fields alone, from one JSON file
C8_Witness ==
    /\ Built /\ last.cls = "ModelConfig"
    /\ DataArgs = EmptyMap
    /\ last.res.json_value = ModelRequiredOnly
    /\ last.res.ok
    /\ last.res.obj["steps"] = Num("25")
    /\ last.res.obj["seed"] = List(<<>>)

\* the paths a json_config_path argument stands for
PathsOf(v) ==
    CASE v.kind = "null" -> <<>>
      [] v.kind = "list" -> v.l
      [] OTHER -> <<v.a>>

\* C9: json_config_path is removed from the init arguments before the JSON
\* source is built from it (from the class-level None, hence no path and an
\* empty mapping, when it was not passed); the other init arguments are
\* unchanged and json_config_path is no field of the Config Object
C9_JsonConfigPathPopped ==
    last.op = "construct" =>
      /\ "json_config_path" \notin DOMAIN last.res.init_after
      /\ last.res.init_after = DataArgs
      /\ "json_config_path" \in DOMAIN last.kwargs
           => last.res.json_paths = PathsOf(last.kwargs["json_config_path"])
      /\ "json_config_path" \notin DOMAIN last.kwargs
           => /\ last.res.json_paths = <<>>
              /\ last.res.json_value = EmptyMap
              /\ last.res.reads = <<>>
      /\ last.res.ok => "json_config_path" \notin DOMAIN last.res.obj

\* a construction given json_config_path together with data arguments succeeded
C9_Witness ==
    /\ last.op = "construct"
    /\ "json_config_path" \in DOMAIN last.kwargs
    /\ DataArgs # EmptyMap
    /\ last.res.json_paths # <<>>
    /\ last.res.ok

(* ------------------------- cached accessors ---------------------------- *)

\* lru_cache(maxsize=2)
Maxsize == 2

\* the cache key made from the call's arguments: the positional arguments,
\* then the keyword arguments; a call relying on the default has neither
MakeKey(form, config_path) ==
    [form |-> form, path |-> IF form = "default" THEN "" ELSE config_path]

\* position of the entry with this key, 0 if there is none
RECURSIVE Find(_, _, _)
Find(cache, key, i) ==
    IF i > Len(cache) THEN 0
    ELSE IF cache[i].key = key THEN i
    ELSE Find(cache, key, i + 1)

\* a hit that leaves the entry where it is
KeepInPlace(cache, i) == cache

\* a hit makes the entry the most recently used one
MoveToEnd(cache, i) ==
    SubSeq(cache, 1, i - 1) \o SubSeq(cache, i + 1, Len(cache)) \o <<cache[i]>>

\* storing without ever discarding
StoreUnbounded(cache, entry) == Append(cache, entry)

\* a new result is stored; a full cache first drops its least recently used
\* entry, the head
Store(cache, entry) ==
    IF Len(cache) >= Maxsize THEN Append(Tail(cache), entry) ELSE Append(cache, entry)

\* room is made for the result before the function is called
AfterRaiseEvicted(cache) == IF Len(cache) >= Maxsize THEN Tail(cache) ELSE cache

\* the wrapped function raised: the exception propagates, nothing is stored
AfterRaise(cache) == cache

NoEntry == [key |-> MakeKey("", ""), id |-> 0]

\* the lru_cache wrapper around a function that builds cls from config_path:
\* the new cache and what the caller gets
LruCall(cache, key, cls, config_path, files, envm, id) ==
    LET i == Find(cache, key, 1)
        r == Construct(cls, WithPath(EmptyMap, PathV(config_path)), files, envm)
    IN  IF i > 0
        THEN [cache |-> MoveToEnd(cache, i), hit |-> TRUE, ok |-> TRUE, err |-> "",
              id |-> cache[i].id, data |-> cache[i].data, reads |-> <<>>,
              victim |-> NoEntry]
        ELSE IF ~r.ok
        THEN [cache |-> AfterRaise(cache), hit |-> FALSE, ok |-> FALSE, err |-> r.err,
              id |-> 0, data |-> EmptyMap, reads |-> r.reads, victim |-> NoEntry]
        ELSE [cache |-> Store(cache, [key |-> key, path |-> config_path,
                                       id |-> id, data |-> r.obj]),
              hit |-> FALSE, ok |-> TRUE, err |-> "",
              id |-> id, data |-> r.obj, reads |-> r.reads,
              victim |-> IF Len(cache) >= Maxsize
                         THEN [key |-> Head(cache).key, id |-> Head(cache).id]
                         ELSE NoEntry]

\* the most recently used distinct keys with the objects returned for them,
\* oldest first, at most Maxsize of them (a record of the calls, not of the cache)
Used(uses, key, id) ==
    LET others == SelectSeq(uses, LAMBDA u : u.key # key)
        all == Append(others, [key |-> key, id |-> id])
    IN  IF Len(all) > Maxsize THEN SubSeq(all, Len(all) - Maxsize + 1, Len(all)) ELSE all

\* the failing call a write to path p directly follows, if any
FailedBefore(p) ==
    IF last.op = "call" /\ ~last.ok /\ last.path = p
    THEN [fn |-> last.fn, key |-> last.key]
    ELSE IF last.op = "write" /\ last.path = p THEN last.failed
    ELSE [fn |-> "", key |-> MakeKey("", "")]

CallRecord(fn, key, config_path, r) ==
    [op |-> "call", fn |-> fn, key |-> key, path |-> config_path,
     hit |-> r.hit, ok |-> r.ok, err |-> r.err, id |-> r.id, data |-> r.data,
     reads |-> r.reads, victim |-> r.victim,
     retry |-> last.op = "write" /\ last.path = config_path
               /\ last.failed = [fn |-> fn, key |-> key]]

Init ==
    /\ fs = [p \in Paths |->
               IF p = DefaultInferPath THEN Json(InferFull) ELSE Json(ModelRequiredOnly)]
    /\ env = EmptyMap
    /\ inferCache = <<>>
    /\ modelCache = <<>>
    /\ recent = [model |-> <<>>, infer |-> <<>>]
    /\ nextId = 1
    /\ last = [op |-> "start"]

\* the states a config file is put in between calls
CacheFileStates ==
    {Missing, Malformed, Json(ModelRequiredOnly), Json(InferFull)}

\* the calls made to get_model_config: (form, config_path)
ModelCalls ==
    {<<"pos", "a.json">>, <<"kw", "a.json">>, <<"pos", "b.json">>, <<"pos", "c.json">>,
     <<"pos", DefaultInferPath>>}

\* the calls made to get_infer_config: (form, config_path)
InferCalls ==
    {<<"default", DefaultInferPath>>, <<"pos", DefaultInferPath>>,
     <<"kw", DefaultInferPath>>, <<"pos", "a.json">>}

\* the file at p is created, removed or rewritten outside the program
WriteFile(p, c) ==
    /\ c # fs[p]
    /\ fs' = [fs EXCEPT ![p] = c]
    /\ last' = [op |-> "write", path |-> p, failed |-> FailedBefore(p)]
    /\ UNCHANGED <<env, inferCache, modelCache, recent, nextId>>

\* get_model_config(config_path) or get_model_config(config_path=config_path)
GetModelConfig(form, config_path) ==
    LET key == MakeKey(form, config_path)
        r == LruCall(modelCache, key, "ModelConfig", config_path, fs, env, nextId)
    IN  /\ (r.ok /\ ~r.hit) => nextId <= MaxObjs
        /\ modelCache' = r.cache
        /\ nextId' = IF r.ok /\ ~r.hit THEN nextId + 1 ELSE nextId
        /\ recent' = IF r.ok THEN [recent EXCEPT !.model = Used(@, key, r.id)] ELSE recent
        /\ last' = CallRecord("get_model_config", key, config_path, r)
        /\ UNCHANGED <<fs, env, inferCache>>

\* get_infer_config(), get_infer_config(config_path) or
\* get_infer_config(config_path=config_path)
GetInferConfig(form, config_path) ==
    LET key == MakeKey(form, config_path)
        r == LruCall(inferCache, key, "InferenceConfig", config_path, fs, env, nextId)
    IN  /\ form = "default" => config_path = DefaultInferPath
        /\ (r.ok /\ ~r.hit) => nextId <= MaxObjs
        /\ inferCache' = r.cache
        /\ nextId' = IF r.ok /\ ~r.hit THEN nextId + 1 ELSE nextId
        /\ recent' = IF r.ok THEN [recent EXCEPT !.infer = Used(@, key, r.id)] ELSE recent
        /\ last' = CallRecord("get_infer_config", key, config_path, r)
        /\ UNCHANGED <<fs, env, modelCache>>

Next ==
    \/ \E c \in CacheFileStates : WriteFile("a.json", c)
    \/ \E call \in ModelCalls : GetModelConfig(call[1], call[2])
    \/ \E call \in InferCalls : GetInferConfig(call[1], call[2])

Spec == Init /\ [][Next]_vars

(* ---- claims about the cached accessors (checked under Spec) ----------- *)

CacheOf(fn) == IF fn = "get_model_config" THEN modelCache ELSE inferCache

ClassOf(fn) == IF fn = "get_model_config" THEN "ModelConfig" ELSE "InferenceConfig"

Held(cache) == {[key |-> cache[i].key, id |-> cache[i].id] : i \in 1..Len(cache)}

\* C4: a call with a path equal to that of an earlier successful call whose
\* entry is still cached returns that entry's object and reads no file
C4_SamePathSameInstance ==
    [][last'.op = "call" =>
         \A i \in 1..Len(CacheOf(last'.fn)) :
            CacheOf(last'.fn)[i].path = last'.path =>
              /\ last'.ok
              /\ last'.id = CacheOf(last'.fn)[i].id
              /\ last'.reads = <<>>]_vars

\* C5: the entry evicted from a full cache is the least recently used one,
\* insertion and hit both counting as use: each cache holds exactly the
\* Maxsize most recently used keys, with the objects returned for them
C5_LeastRecentlyUsedEvicted ==
    /\ Held(modelCache) = {recent.model[i] : i \in 1..Len(recent.model)}
    /\ Held(inferCache) = {recent.infer[i] : i \in 1..Len(recent.infer)}

\* the call sequence A, B, A, C: loading C evicted B although the surviving A
\* was constructed before B, three distinct paths passed the same way
C5_Witness ==
    /\ last.op = "call" /\ last.ok /\ ~last.hit
    /\ last.victim # NoEntry
    /\ \E i \in 1..Len(CacheOf(last.fn)) :
         LET e == CacheOf(last.fn)[i]
         IN  /\ e.id < last.victim.id
             /\ e.key.form = "pos" /\ last.victim.key.form = "pos" /\ last.key.form = "pos"
             /\ Cardinality({e.key.path, last.victim.key.path, last.key.path}) = 3

\* C6: each cache holds at most 2 entries, and a call to one accessor leaves
\* the other accessor's cache as it was
C6_BoundedAndIndependent ==
    [][/\ Len(modelCache') <= 2
       /\ Len(inferCache') <= 2
       /\ (last'.op = "call" /\ last'.fn = "get_model_config") => inferCache' = inferCache
       /\ (last'.op = "call" /\ last'.fn = "get_infer_config") => modelCache' = modelCache]_vars

\* get_model_config loaded a new object while get_infer_config's cache was full
C6_Witness ==
    /\ last.op = "call" /\ last.fn = "get_model_config" /\ last.ok /\ ~last.hit
    /\ Len(inferCache) = 2
    /\ Len(modelCache) = 1

\* C7: each cache holds at most one entry per distinct config file path,
\* however the path was passed (by default, by position or by keyword)
C7_OneEntryPerPath ==
    /\ \A i, j \in 1..Len(modelCache) :
         modelCache[i].path = modelCache[j].path => i = j
    /\ \A i, j \in 1..Len(inferCache) :
         inferCache[i].path = inferCache[j].path => i = j

\* the error the file at p makes a load fail with ("" if its text parses)
FileError(p) ==
    CASE fs[p].state \in {"missing", "dir"} -> "FileNotFoundError"
      [] fs[p].state = "malformed" -> "JSONDecodeError"
      [] OTHER -> ""

\* C10: a failing accessor call surfaces the error and leaves both caches as
\* they were; a call whose key is not cached always attempts the load from
\* the file as it is now, so no failure is replayed
C10_FailureLeavesCache ==
    [][last'.op = "call" =>
         /\ ~last'.ok =>
              /\ last'.err \in {"FileNotFoundError", "JSONDecodeError", "ValidationError"}
              /\ modelCache' = modelCache
              /\ inferCache' = inferCache
              /\ recent' = recent
         /\ Find(CacheOf(last'.fn), last'.key, 1) = 0 =>
              /\ ~last'.hit
              /\ FileError(last'.path) # "" => (~last'.ok /\ last'.err = FileError(last'.path))
              /\ FileError(last'.path) = "" =>
                   /\ last'.reads = <<last'.path>>
                   /\ last'.ok = Validate(ClassOf(last'.fn), fs[last'.path].content).ok]_vars

\* a call failed, the file was rewritten, the same call then succeeded, and
\* the entry cached before the failure is still there
C10_Witness ==
    /\ last.op = "call" /\ last.ok /\ ~last.hit
    /\ last.retry
    /\ Len(CacheOf(last.fn)) = 2
    /\ CacheOf(last.fn)[1].id < last.id

====
